---- MODULE Spec2Model ----
(***************************************************************************)
(* piano_keyboard: the KeyboardBuilder (src/src/lib.rs), the width solver  *)
(* Base (src/src/base.rs) and the sub-width solver Top (src/src/top.rs).   *)
(*                                                                         *)
(* A behaviour is one use of the builder: KeyboardBuilder::new(), then any *)
(* number of builder calls, then build2d().  Every builder method takes    *)
(* self by value, so a call that returns Err leaves no builder behind.     *)
(* build2d runs Base::calculate; the loop of Base::find_solution is taken  *)
(* one iteration per step.  pc = "solved" is build2d after Base::calculate *)
(* returned, pc = "done" is build2d after it returned the Keyboard2d.      *)
(***************************************************************************)
EXTENDS Integers, Sequences, FiniteSets

VARIABLES
    pc,          \* "builder" | "err" | "solving" | "solved" | "done" | "panic"
    kb,          \* the KeyboardBuilder
    last,        \* the last builder call: its name, arguments and Ok/Err
    base,        \* the Base struct without its elements
    elements,    \* Base::elements
    last_delta,  \* the local last_delta of find_solution
    fired,       \* the tiers of find_solution that were entered, in order
    msg,         \* the panic message when pc = "panic"
    overflow,    \* an integer expression of Base::calculate has left its type
    top,         \* the Top struct
    keyboard     \* the Keyboard2d

vars == <<pc, kb, last, base, elements, last_delta, fired, msg, overflow, top, keyboard>>

(***************************************************************************)
(* Bounds of the model: the arguments the builder calls are tried with.    *)
(***************************************************************************)
MaxSmallWidth == 30

WideFrom == 800

SpecialWidths == {119, 640, 65408, 65409, 65535}

WidthArgs ==
    (0..MaxSmallWidth) \cup (WideFrom..(WideFrom + MaxSmallWidth)) \cup SpecialWidths

KeyArgs == {0, 2, 24, 25, 35, 98, 110, 127, 128, 200}

SizeArgs == {25, 37, 49, 61, 64, 73, 76, 88, 0, 24, 87, 89, 255}

\* the widths Top::calculate is tried with on its own: key widths and the
\* minimum black key width up to MaxTopKey, gaps up to MaxTopGap
MaxTopKey == 12

MaxTopGap == 2

\* the white budgets of the FGAB group the split of Top::calculate is tried
\* with on its own: 0..MaxFgabWhiteWidth, a u16
MaxFgabWhiteWidth == 65534

(***************************************************************************)
(* Integer types                                                           *)
(***************************************************************************)
\* a value fits its type; a u32 is checked against 2^31 - 1, the largest
\* integer of the model checker, which is within u32
Fits(v, type) == IF type = "u16" THEN v <= 65535 ELSE v <= 2147483647

U16(x) == x % 65536

(***************************************************************************)
(* Key classes, base.rs 6-17                                               *)
(***************************************************************************)
KEY_C == 0

KEY_D == 2

KEY_E == 4

KEY_F == 5

KEY_G == 7

KEY_A == 9

KEY_B == 11

(***************************************************************************)
(* KeyboardBuilder, lib.rs 129-245                                         *)
(***************************************************************************)
white_key_wide_width_10um == 2215

white_key_small_width_fb_10um == 1283

white_key_small_width_ga_10um == 1308

black_key_width_10um == 1100

black_key_height_10um == 8000

white_key_height_10um == 12627

white_key_wide_height_10um == 4500

\* KeyboardBuilder::new
NewBuilder ==
    [left_white_key |-> 21, right_white_key |-> 108, width |-> 640,
     need_black_gap |-> TRUE]

\* the builder after it was moved into a call that returned Err
NoBuilder == [dropped |-> TRUE]

is_white_with_cis(key) == key % 12 \in {0, 1, 2, 4, 5, 7, 9, 11}

\* KeyboardBuilder::is_white
is_white(key) == key % 12 \in {0, 2, 4, 5, 7, 9, 11}

StandardPianoTableShifted(nr_of_keys) ==
    CASE nr_of_keys = 88 -> <<21, 108>>
      [] nr_of_keys = 76 -> <<21, 108 - 12>>
      [] nr_of_keys = 73 -> <<21 + 3, 108 - 12>>
      [] nr_of_keys = 64 -> <<21 + 12, 108 - 12>>
      [] nr_of_keys = 61 -> <<21 + 12 + 3, 108 - 12>>
      [] nr_of_keys = 49 -> <<21 + 12 + 3, 108 - 24>>
      [] nr_of_keys = 37 -> <<21 + 24 + 3, 108 - 24>>
      [] nr_of_keys = 25 -> <<21 + 24 + 2, 108 - 36>>
      [] OTHER -> <<>>

\* the match of standard_piano: the pair of a recognised size, <<>> otherwise
StandardPianoTable(nr_of_keys) ==
    CASE nr_of_keys = 88 -> <<21, 108>>
      [] nr_of_keys = 76 -> <<21, 108 - 12>>
      [] nr_of_keys = 73 -> <<21 + 3, 108 - 12>>
      [] nr_of_keys = 64 -> <<21 + 12, 108 - 12>>
      [] nr_of_keys = 61 -> <<21 + 12 + 3, 108 - 12>>
      [] nr_of_keys = 49 -> <<21 + 12 + 3, 108 - 24>>
      [] nr_of_keys = 37 -> <<21 + 24 + 3, 108 - 24>>
      [] nr_of_keys = 25 -> <<21 + 24 + 3, 108 - 36>>
      [] OTHER -> <<>>

SetKeysOkMoreThanOctave(left_white_key, right_white_key) ==
    /\ ~(left_white_key > right_white_key)
    /\ ~(left_white_key > 127)
    /\ ~(right_white_key > 127)
    /\ ~(right_white_key - left_white_key <= 11)
    /\ is_white(left_white_key)
    /\ is_white(right_white_key)

\* the else-branch of set_most_left_right_white_keys is reached
SetKeysOk(left_white_key, right_white_key) ==
    /\ ~(left_white_key > right_white_key)
    /\ ~(left_white_key > 127)
    /\ ~(right_white_key > 127)
    /\ ~(right_white_key - left_white_key < 11)
    /\ is_white(left_white_key)
    /\ is_white(right_white_key)

SetWidthOkAny(w) == w <= 65535

\* the else-branch of set_width is reached
SetWidthOk(w) == ~(w > 65535 - 127)

NoCall == [op |-> "new", a |-> 0, b |-> 0, ok |-> TRUE]

Call(op, a, b, ok) == [op |-> op, a |-> a, b |-> b, ok |-> ok]

(***************************************************************************)
(* Base, base.rs 39-80                                                     *)
(***************************************************************************)
\* Base::default()
DefaultBase ==
    [width |-> 0, nr_of_white_keys |-> 0, key_gap_min |-> 0, kw_width_min |-> 0,
     identical_key |-> 0, identical_gap |-> 0, gap_bc |-> 0, gap_ef |-> 0,
     outter_gaps |-> 0, outter_left_key |-> 0, outter_right_key |-> 0,
     width_d |-> 0, width_cde |-> 0, width_fgab |-> 0,
     nr_of_full_octaves |-> 0, nr_of_c |-> 0, nr_of_d |-> 0, nr_of_e |-> 0,
     nr_of_cde |-> 0, nr_of_f |-> 0, nr_of_g |-> 0, nr_of_a |-> 0, nr_of_b |-> 0,
     nr_of_fgab |-> 0, nr_of_bc_gaps |-> 0, nr_of_ef_gaps |-> 0,
     outter_gaps_enlarged |-> FALSE, bc_gaps_enlarged |-> FALSE,
     ef_gaps_enlarged |-> FALSE, d_key_enlarged |-> FALSE,
     alternating_d_key_enlarged |-> FALSE, end_keys_enlarged |-> FALSE,
     cde_keys_enlarged |-> FALSE, fgab_keys_enlarged |-> FALSE]

\* no Top yet
DefaultTop == [calculated |-> FALSE, panic |-> ""]

NoKeyboard == [built |-> FALSE]

\* an element of Base::elements; the key of a gap is not used
Gap(t) == [t |-> t, key |-> 0]

Key(t, key) == [t |-> t, key |-> key]

IsKeyElement(e) ==
    e.t \in {"IdenticalWhite", "KeyD", "KeyCDE", "KeyFGAB",
             "EnlargedOutterLeftKey", "EnlargedOutterRightKey"}

(***************************************************************************)
(* Base::calculate, base.rs 83-185                                         *)
(***************************************************************************)
key_gap_10um ==
    white_key_height_10um - black_key_height_10um - white_key_wide_height_10um

\* (left..=right).filter(is_white).count()
NrOfWhiteKeys(b) ==
    Cardinality({k \in b.left_white_key..b.right_white_key : is_white(k)})

keyboard_width_10um(n) ==
    (white_key_wide_width_10um + key_gap_10um) * n + key_gap_10um

KeyGapMin(b) ==
    U16((key_gap_10um * b.width) \div keyboard_width_10um(NrOfWhiteKeys(b)))

KwWidthMinFloor(b) ==
    U16((white_key_wide_width_10um * b.width) \div keyboard_width_10um(NrOfWhiteKeys(b)))

\* the u16 expression n * kw + (n + 1) * gap, not yet reduced to 16 bits
SeedWidth(n, kw, gap) == n * kw + (n + 1) * gap

KwWidthMinNeverIncremented(b) == KwWidthMinFloor(b)

\* kw_width_min after the conditional increment of lines 105-107
KwWidthMin(b) ==
    IF U16(SeedWidth(NrOfWhiteKeys(b), KwWidthMinFloor(b) + 1, KeyGapMin(b))) <= b.width
    THEN KwWidthMinFloor(b) + 1
    ELSE KwWidthMinFloor(b)

min_width(b) == U16(SeedWidth(NrOfWhiteKeys(b), KwWidthMin(b), KeyGapMin(b)))

max_width(b) == U16(SeedWidth(NrOfWhiteKeys(b), KwWidthMin(b) + 1, KeyGapMin(b)))

\* every intermediate value of lines 97-111 and the type it has to fit
CalculateValues(b) ==
    LET n == NrOfWhiteKeys(b)
        gap == KeyGapMin(b)
        kw == KwWidthMinFloor(b)
        kw2 == KwWidthMin(b)
    IN  { <<(white_key_wide_width_10um + key_gap_10um) * n, "u32">>,
          <<keyboard_width_10um(n), "u32">>,
          <<key_gap_10um * b.width, "u32">>,
          <<white_key_wide_width_10um * b.width, "u32">>,
          <<n * (kw + 1), "u16">>,
          <<(n + 1) * gap, "u16">>,
          <<SeedWidth(n, kw + 1, gap), "u16">>,
          <<SeedWidth(n, kw2, gap), "u16">>,
          <<n * (kw2 + 1), "u16">>,
          <<SeedWidth(n, kw2 + 1, gap), "u16">> }

CalculateOverflows(b) == \E v \in CalculateValues(b) : ~Fits(v[1], v[2])

\* lines 119-125 for the keys from..to, the range split in halves
RECURSIVE FillElements(_, _)
FillElements(from, to) ==
    IF from > to THEN <<>>
    ELSE IF from = to
    THEN IF is_white(from) THEN <<Key("IdenticalWhite", from), Gap("IdenticalGap")>> ELSE <<>>
    ELSE FillElements(from, (from + to) \div 2) \o FillElements((from + to) \div 2 + 1, to)

InitialElements(b) ==
    <<Gap("IdenticalGap")>> \o FillElements(b.left_white_key, b.right_white_key)

\* a possible_* flag of lines 130-134 when the loop of lines 135-180 is at
\* key: an earlier key of the range had the class that sets the flag
Possible(b, class, key) ==
    \E k \in b.left_white_key..(key - 1) : k % 12 = class

\* a counter that is incremented for every key of a class
CountClass(b, class) ==
    Cardinality({k \in b.left_white_key..b.right_white_key : k % 12 = class})

\* a counter that is incremented for a key of a class when a flag is set
CountClassIf(b, class, flag_class) ==
    Cardinality({k \in b.left_white_key..b.right_white_key :
                   k % 12 = class /\ Possible(b, flag_class, k)})

\* the counters after the loop of lines 135-180
CountKeys(b) ==
    [nr_of_c |-> CountClass(b, KEY_C),
     nr_of_bc_gaps |-> CountClassIf(b, KEY_C, KEY_B),
     nr_of_d |-> CountClass(b, KEY_D),
     nr_of_e |-> CountClass(b, KEY_E),
     nr_of_cde |-> CountClassIf(b, KEY_E, KEY_C),
     nr_of_f |-> CountClass(b, KEY_F),
     nr_of_ef_gaps |-> CountClassIf(b, KEY_F, KEY_E),
     nr_of_g |-> CountClass(b, KEY_G),
     nr_of_a |-> CountClass(b, KEY_A),
     nr_of_b |-> CountClass(b, KEY_B),
     nr_of_fgab |-> CountClassIf(b, KEY_B, KEY_F),
     nr_of_full_octaves |-> CountClassIf(b, KEY_B, KEY_C)]

\* the Base that calculate hands to find_solution
SeededBase(b) ==
    LET c == CountKeys(b)
    IN  [DefaultBase EXCEPT
           !.width = b.width,
           !.nr_of_white_keys = NrOfWhiteKeys(b),
           !.key_gap_min = KeyGapMin(b),
           !.kw_width_min = KwWidthMin(b),
           !.identical_key = KwWidthMin(b),
           !.identical_gap = KeyGapMin(b),
           !.nr_of_full_octaves = c.nr_of_full_octaves,
           !.nr_of_c = c.nr_of_c, !.nr_of_d = c.nr_of_d, !.nr_of_e = c.nr_of_e,
           !.nr_of_cde = c.nr_of_cde,
           !.nr_of_f = c.nr_of_f, !.nr_of_g = c.nr_of_g, !.nr_of_a = c.nr_of_a,
           !.nr_of_b = c.nr_of_b, !.nr_of_fgab = c.nr_of_fgab,
           !.nr_of_bc_gaps = c.nr_of_bc_gaps, !.nr_of_ef_gaps = c.nr_of_ef_gaps]

(***************************************************************************)
(* Base::current_width, base.rs 187-208, and Base::result, base.rs 449-467 *)
(***************************************************************************)
\* the match of current_width: the width the struct holds for an element
ElementWidth(bs, e) ==
    CASE e.t = "IdenticalWhite" -> bs.identical_key
      [] e.t = "IdenticalGap" -> bs.identical_gap
      [] e.t = "GapBC" -> bs.gap_bc
      [] e.t = "GapEF" -> bs.gap_ef
      [] e.t = "KeyD" -> bs.width_d
      [] e.t = "KeyCDE" -> bs.width_cde
      [] e.t = "KeyFGAB" -> bs.width_fgab
      [] e.t = "OutterGap" -> bs.outter_gaps
      [] e.t = "EnlargedOutterLeftKey" -> bs.outter_left_key
      [] e.t = "EnlargedOutterRightKey" -> bs.outter_right_key

\* the sum of current_width over the positions from..to, the range split in halves
RECURSIVE SumWidths(_, _, _, _)
SumWidths(bs, els, from, to) ==
    IF from > to THEN 0
    ELSE IF from = to THEN ElementWidth(bs, els[from])
    ELSE SumWidths(bs, els, from, (from + to) \div 2)
           + SumWidths(bs, els, (from + to) \div 2 + 1, to)

\* w of current_width
CurrentW(bs, els) == U16(SumWidths(bs, els, 1, Len(els)))

\* the u16 sum of current_width leaves its type
SumOverflows(bs, els) == ~Fits(SumWidths(bs, els, 1, Len(els)), "u16")

ResultElementIdenticalGapOnly(bs, e) ==
    IF IsKeyElement(e)
    THEN [t |-> "Key", width |-> ElementWidth(bs, e), key |-> e.key]
    ELSE [t |-> "Gap", width |-> bs.identical_gap, key |-> 0]

\* the match of result: the ResultElement of an element
ResultElement(bs, e) ==
    CASE e.t = "IdenticalWhite" -> [t |-> "Key", width |-> bs.identical_key, key |-> e.key]
      [] e.t = "IdenticalGap" -> [t |-> "Gap", width |-> bs.identical_gap, key |-> 0]
      [] e.t = "GapBC" -> [t |-> "Gap", width |-> bs.gap_bc, key |-> 0]
      [] e.t = "GapEF" -> [t |-> "Gap", width |-> bs.gap_ef, key |-> 0]
      [] e.t = "KeyD" -> [t |-> "Key", width |-> bs.width_d, key |-> e.key]
      [] e.t = "KeyCDE" -> [t |-> "Key", width |-> bs.width_cde, key |-> e.key]
      [] e.t = "KeyFGAB" -> [t |-> "Key", width |-> bs.width_fgab, key |-> e.key]
      [] e.t = "OutterGap" -> [t |-> "Gap", width |-> bs.outter_gaps, key |-> 0]
      [] e.t = "EnlargedOutterLeftKey" -> [t |-> "Key", width |-> bs.outter_left_key, key |-> e.key]
      [] e.t = "EnlargedOutterRightKey" -> [t |-> "Key", width |-> bs.outter_right_key, key |-> e.key]

\* the vector of Base::result
ResultElements(bs, els) == [i \in 1..Len(els) |-> ResultElement(bs, els[i])]

ResultPerfectDNotNegated(bs) ==
    /\ bs.d_key_enlarged
    /\ ~bs.alternating_d_key_enlarged
    /\ ~bs.end_keys_enlarged
    /\ ~bs.cde_keys_enlarged
    /\ ~bs.fgab_keys_enlarged

\* the flag of Base::result
ResultPerfect(bs) ==
    /\ ~bs.d_key_enlarged
    /\ ~bs.alternating_d_key_enlarged
    /\ ~bs.end_keys_enlarged
    /\ ~bs.cde_keys_enlarged
    /\ ~bs.fgab_keys_enlarged

(***************************************************************************)
(* Base::find_solution, base.rs 210-448: the tiers                         *)
(***************************************************************************)
KeyClass(e) == e.key % 12

\* 0-based index i of the code is position i + 1 of the sequence
At(els, i) == els[i + 1]

\* the indices of `for i in from..self.elements.len()-1`
LoopRange(els, from) == from..(Len(els) - 2)

IsFGAB(e) == e.t = "IdenticalWhite" /\ KeyClass(e) \in {KEY_F, KEY_G, KEY_A, KEY_B}

\* lines 259-276
EnlargeFGAB(bs, els) ==
    LET hit == {i \in LoopRange(els, 1) : IsFGAB(At(els, i))}
    IN  [base |-> [bs EXCEPT !.fgab_keys_enlarged = TRUE,
                             !.width_fgab = IF hit = {} THEN @ ELSE bs.identical_key + 1],
         elements |-> [j \in 1..Len(els) |->
                         IF (j - 1) \in hit THEN Key("KeyFGAB", els[j].key) ELSE els[j]]]

IsCDE(e) == e.t = "IdenticalWhite" /\ KeyClass(e) \in {KEY_C, KEY_D, KEY_E}

\* lines 279-296
EnlargeCDE(bs, els) ==
    LET hit == {i \in LoopRange(els, 1) : IsCDE(At(els, i))}
    IN  [base |-> [bs EXCEPT !.cde_keys_enlarged = TRUE,
                             !.width_cde = IF hit = {} THEN @ ELSE bs.identical_key + 1],
         elements |-> [j \in 1..Len(els) |->
                         IF (j - 1) \in hit THEN Key("KeyCDE", els[j].key) ELSE els[j]]]

EnlargeGapBCFlagNotSet(bs, els) ==
    LET hit == {i \in LoopRange(els, 3) :
                  At(els, i).t = "IdenticalWhite" /\ KeyClass(At(els, i)) = KEY_C}
    IN  [base |-> [bs EXCEPT !.gap_bc = IF hit = {} THEN @ ELSE bs.identical_gap + 1],
         elements |-> [j \in 1..Len(els) |->
                         IF j \in hit THEN Gap("GapBC") ELSE els[j]]]

\* lines 299-314: the gap left of every C that is still IdenticalWhite
EnlargeGapBC(bs, els) ==
    LET hit == {i \in LoopRange(els, 3) :
                  At(els, i).t = "IdenticalWhite" /\ KeyClass(At(els, i)) = KEY_C}
    IN  [base |-> [bs EXCEPT !.bc_gaps_enlarged = TRUE,
                             !.gap_bc = IF hit = {} THEN @ ELSE bs.identical_gap + 1],
         elements |-> [j \in 1..Len(els) |->
                         IF j \in hit THEN Gap("GapBC") ELSE els[j]]]

\* lines 317-333: the gap left of every F that is IdenticalWhite or KeyFGAB
EnlargeGapEF(bs, els) ==
    LET hit == {i \in LoopRange(els, 3) :
                  At(els, i).t \in {"IdenticalWhite", "KeyFGAB"} /\ KeyClass(At(els, i)) = KEY_F}
    IN  [base |-> [bs EXCEPT !.ef_gaps_enlarged = TRUE,
                             !.gap_ef = IF hit = {} THEN @ ELSE bs.identical_gap + 1],
         elements |-> [j \in 1..Len(els) |->
                         IF j \in hit THEN Gap("GapEF") ELSE els[j]]]

IsD(e) == e.t \in {"IdenticalWhite", "KeyCDE"} /\ KeyClass(e) = KEY_D

\* lines 351-355 and 439-443
WidthDAfter(bs) ==
    IF bs.cde_keys_enlarged THEN bs.width_cde + 1 ELSE bs.identical_key + 1

\* lines 336-357
EnlargeD(bs, els) ==
    LET hit == {i \in LoopRange(els, 3) : IsD(At(els, i))}
    IN  [base |-> [bs EXCEPT !.d_key_enlarged = TRUE, !.width_d = WidthDAfter(bs)],
         elements |-> [j \in 1..Len(els) |->
                         IF (j - 1) \in hit THEN Key("KeyD", els[j].key) ELSE els[j]]]

\* lines 360-370
EnlargeOutterGaps(bs, els, delta) ==
    [base |-> [bs EXCEPT !.outter_gaps_enlarged = TRUE,
                         !.outter_gaps = bs.identical_gap + 1],
     elements |-> [j \in 1..Len(els) |->
                     IF j = 1 \/ (j = Len(els) /\ delta % 2 = 0)
                     THEN Gap("OutterGap") ELSE els[j]]]

\* the arms of the two matches of lines 376-414 that do not panic
EndKeyKnown(e, own) == e.t \in {"IdenticalWhite", "KeyCDE", "KeyFGAB", own}

\* the width an arm assigns to outter_left_key or outter_right_key
EndKeyWidth(bs, e, current) ==
    CASE e.t = "IdenticalWhite" -> bs.identical_key + 1
      [] e.t = "KeyCDE" -> bs.width_cde + 1
      [] e.t = "KeyFGAB" -> bs.width_fgab + 1
      [] OTHER -> current + 1

\* lines 373-416, when neither match panics
EnlargeEndKeys(bs, els) ==
    LET n == Len(els)
        l == At(els, 1)
        r == At(els, n - 2)
    IN  [base |-> [bs EXCEPT !.end_keys_enlarged = TRUE,
                             !.outter_left_key = EndKeyWidth(bs, l, @),
                             !.outter_right_key = EndKeyWidth(bs, r, @)],
         elements |-> [j \in 1..n |->
                         IF j = 2 THEN Key("EnlargedOutterLeftKey", l.key)
                         ELSE IF j = n - 1 THEN Key("EnlargedOutterRightKey", r.key)
                         ELSE els[j]]]

Min(S) == CHOOSE x \in S : \A y \in S : x <= y

\* the loop of lines 422-438 from index from on, taken from one D key to the
\* next: the indices turned into KeyD
RECURSIVE AlternatingHits(_, _, _)
AlternatingHits(els, from, enlarge) ==
    LET ds == {i \in LoopRange(els, from) : IsD(At(els, i))}
    IN  IF ds = {} THEN {}
        ELSE (IF ~enlarge THEN {Min(ds)} ELSE {})
               \cup AlternatingHits(els, Min(ds) + 1, ~enlarge)

\* lines 419-445
EnlargeAlternatingD(bs, els, delta) ==
    LET hit == AlternatingHits(els, 3, delta = bs.nr_of_d \div 2)
    IN  [base |-> [bs EXCEPT !.alternating_d_key_enlarged = TRUE,
                             !.width_d = WidthDAfter(bs)],
         elements |-> [j \in 1..Len(els) |->
                         IF (j - 1) \in hit THEN Key("KeyD", els[j].key) ELSE els[j]]]

\* the condition of lines 242 and 252, when the divisors are not zero
RemFits(bs, rem) == rem % bs.nr_of_cde <= 4 \/ rem % bs.nr_of_fgab <= 4

\* the modulo of lines 242 and 252 panics: the divisor is zero
RemPanics(bs, rem) ==
    \/ bs.nr_of_cde = 0
    \/ (~(rem % bs.nr_of_cde <= 4) /\ bs.nr_of_fgab = 0)

Continue(tier, bs, els) == [kind |-> "continue", tier |-> tier, base |-> bs, elements |-> els]

ContinueWith(tier, r) == Continue(tier, r.base, r.elements)

Panic(m, bs, els) == [kind |-> "panic", tier |-> m, base |-> bs, elements |-> els]

\* the tiers after the two remainder tiers, lines 258-446
FlaggedTiers(bs, els, delta) ==
    IF delta >= bs.nr_of_f + bs.nr_of_g + bs.nr_of_a + bs.nr_of_b /\ ~bs.fgab_keys_enlarged
    THEN ContinueWith("fgab", EnlargeFGAB(bs, els))
    ELSE IF delta >= bs.nr_of_c + bs.nr_of_d + bs.nr_of_e /\ ~bs.cde_keys_enlarged
    THEN ContinueWith("cde", EnlargeCDE(bs, els))
    ELSE IF delta >= bs.nr_of_bc_gaps /\ ~bs.bc_gaps_enlarged
    THEN ContinueWith("gap_bc", EnlargeGapBC(bs, els))
    ELSE IF delta >= bs.nr_of_ef_gaps /\ ~bs.ef_gaps_enlarged
    THEN ContinueWith("gap_ef", EnlargeGapEF(bs, els))
    ELSE IF delta >= bs.nr_of_d /\ ~bs.d_key_enlarged /\ ~bs.alternating_d_key_enlarged
    THEN ContinueWith("d", EnlargeD(bs, els))
    ELSE IF delta <= 4 /\ ~bs.outter_gaps_enlarged
    THEN ContinueWith("outter_gaps", EnlargeOutterGaps(bs, els, delta))
    ELSE IF delta = 2 /\ ~bs.end_keys_enlarged
    THEN IF /\ EndKeyKnown(At(els, 1), "EnlargedOutterLeftKey")
            /\ EndKeyKnown(At(els, Len(els) - 2), "EnlargedOutterRightKey")
         THEN ContinueWith("end_keys", EnlargeEndKeys(bs, els))
         ELSE Panic("Should not happen: {:?}", [bs EXCEPT !.end_keys_enlarged = TRUE], els)
    ELSE IF delta >= bs.nr_of_d \div 2 /\ ~bs.d_key_enlarged /\ ~bs.alternating_d_key_enlarged
    THEN ContinueWith("alternating_d", EnlargeAlternatingD(bs, els, delta))
    ELSE Continue("none", bs, els)

\* the remainder tier of lines 250-256, then the flagged tiers
KeyRemTier(bs, els, delta) ==
    IF delta >= bs.nr_of_white_keys
    THEN IF RemPanics(bs, delta - bs.nr_of_white_keys)
         THEN Panic("attempt to calculate the remainder with a divisor of zero", bs, els)
         ELSE IF RemFits(bs, delta - bs.nr_of_white_keys)
              THEN Continue("key_rem", [bs EXCEPT !.identical_key = @ + 1], els)
              ELSE FlaggedTiers(bs, els, delta)
    ELSE FlaggedTiers(bs, els, delta)

TiersWithoutKeyAll(bs, els, delta) ==
    IF delta = bs.nr_of_white_keys + 1
    THEN Continue("gap_all", [bs EXCEPT !.identical_gap = @ + 1], els)
    ELSE IF delta >= bs.nr_of_white_keys + 1
    THEN IF RemPanics(bs, delta - bs.nr_of_white_keys - 1)
         THEN Panic("attempt to calculate the remainder with a divisor of zero", bs, els)
         ELSE IF RemFits(bs, delta - bs.nr_of_white_keys - 1)
              THEN Continue("gap_rem", [bs EXCEPT !.identical_gap = @ + 1], els)
              ELSE KeyRemTier(bs, els, delta)
    ELSE KeyRemTier(bs, els, delta)

\* lines 226-256, then the flagged tiers
Tiers(bs, els, delta) ==
    IF delta = bs.nr_of_white_keys + 1
    THEN Continue("gap_all", [bs EXCEPT !.identical_gap = @ + 1], els)
    ELSE IF delta = bs.nr_of_white_keys
    THEN Continue("key_all", [bs EXCEPT !.identical_key = @ + 1], els)
    ELSE IF delta >= bs.nr_of_white_keys + 1
    THEN IF RemPanics(bs, delta - bs.nr_of_white_keys - 1)
         THEN Panic("attempt to calculate the remainder with a divisor of zero", bs, els)
         ELSE IF RemFits(bs, delta - bs.nr_of_white_keys - 1)
              THEN Continue("gap_rem", [bs EXCEPT !.identical_gap = @ + 1], els)
              ELSE KeyRemTier(bs, els, delta)
    ELSE KeyRemTier(bs, els, delta)

\* one pass of the loop of find_solution, lines 213-446
Iteration(bs, els, ld) ==
    LET w == CurrentW(bs, els)
        delta == bs.width - w
    IN  IF w > bs.width
        THEN Panic("calculated width should not be bigger than given width", bs, els)
        ELSE IF delta = 0
        THEN [kind |-> "return", tier |-> "none", base |-> bs, elements |-> els]
        ELSE IF delta = ld
        THEN Panic("no solution. remaining delta", bs, els)
        ELSE Tiers(bs, els, delta)

(***************************************************************************)
(* The getters of Base that Top::calculate and build2d call.  Their bodies *)
(* are not part of base.rs; they follow the description of the sub-width   *)
(* solver's inputs: the per-class widths the width solver arrived at, the  *)
(* gap in effect and the floor of the scaled black key width.              *)
(***************************************************************************)
\* Base::get_elements
get_elements(bs, els) == ResultElements(bs, els)

\* Base::is_perfect
base_is_perfect(bs) == ResultPerfect(bs)

\* Base::get_black_key_min_width
get_black_key_min_width(bs) ==
    U16((black_key_width_10um * bs.width) \div keyboard_width_10um(bs.nr_of_white_keys))

ClassWidthCDE(bs) == IF bs.cde_keys_enlarged THEN bs.width_cde ELSE bs.identical_key

ClassWidthD(bs) == IF bs.d_key_enlarged THEN bs.width_d ELSE ClassWidthCDE(bs)

ClassWidthFGAB(bs) == IF bs.fgab_keys_enlarged THEN bs.width_fgab ELSE bs.identical_key

\* Base::get_cde_pars: C, gap, D, gap, E
get_cde_pars(bs) ==
    <<ClassWidthCDE(bs), bs.identical_gap, ClassWidthD(bs), bs.identical_gap, ClassWidthCDE(bs)>>

\* Base::get_fgab_pars: F, gap, G, gap, A, gap, B
get_fgab_pars(bs) ==
    <<ClassWidthFGAB(bs), bs.identical_gap, ClassWidthFGAB(bs), bs.identical_gap,
      ClassWidthFGAB(bs), bs.identical_gap, ClassWidthFGAB(bs)>>

\* Base::get_cde_gap
get_cde_gap(bs) == bs.identical_gap

\* Base::get_fgab_gap
get_fgab_gap(bs) == bs.identical_gap

(***************************************************************************)
(* Top::calculate, top.rs 38-115                                           *)
(***************************************************************************)
RECURSIVE SumSeq(_, _, _)
\* pars[from..=to].iter().sum(), 0-based
SumSeq(pars, from, to) ==
    IF from > to THEN 0 ELSE pars[from + 1] + SumSeq(pars, from + 1, to)

TopPanic(m) == [calculated |-> FALSE, panic |-> m]

CdeBlackKeyWidthArmsSwapped(cde_width, kb_width_min, cde_gap) ==
    CASE (cde_width - 2 * kb_width_min - 4 * cde_gap) % 3 = 0 -> kb_width_min
      [] (cde_width - 2 * kb_width_min - 4 * cde_gap) % 3 = 1 -> kb_width_min + 1
      [] (cde_width - 2 * kb_width_min - 4 * cde_gap) % 3 = 2 -> kb_width_min + 2

\* lines 59-64
CdeBlackKeyWidth(cde_width, kb_width_min, cde_gap) ==
    CASE (cde_width - 2 * kb_width_min - 4 * cde_gap) % 3 = 0 -> kb_width_min
      [] (cde_width - 2 * kb_width_min - 4 * cde_gap) % 3 = 1 -> kb_width_min + 2
      [] (cde_width - 2 * kb_width_min - 4 * cde_gap) % 3 = 2 -> kb_width_min + 1

BlackGsWidthAlwaysEqual(fgab_width, cde_black_key_width) == cde_black_key_width

\* lines 74-79
BlackGsWidth(fgab_width, cde_black_key_width) ==
    CASE fgab_width % 2 = 0 /\ cde_black_key_width % 2 = 0 -> cde_black_key_width
      [] fgab_width % 2 = 0 /\ cde_black_key_width % 2 # 0 -> cde_black_key_width + 1
      [] fgab_width % 2 # 0 /\ cde_black_key_width % 2 = 0 -> cde_black_key_width + 1
      [] fgab_width % 2 # 0 /\ cde_black_key_width % 2 # 0 -> cde_black_key_width

\* lines 86-89
GaFloor(fgab_white_width) ==
    U16((fgab_white_width * white_key_small_width_ga_10um)
          \div (white_key_small_width_ga_10um + white_key_small_width_fb_10um))

FbFloor(fgab_white_width) ==
    U16((fgab_white_width * white_key_small_width_fb_10um)
          \div (white_key_small_width_ga_10um + white_key_small_width_fb_10um))

GaFbSplitRestToGa(fgab_white_width) ==
    <<fgab_white_width - FbFloor(fgab_white_width), FbFloor(fgab_white_width)>>

\* the match of lines 90-100: <<ga_white_width, fb_white_width>>, <<>> for the last arm
GaFbSplit(fgab_white_width) ==
    LET ga == GaFloor(fgab_white_width)
        fb == FbFloor(fgab_white_width)
        rest == fgab_white_width - (ga + fb)
    IN  CASE rest = 0 /\ fb % 2 = 0 -> <<ga, fb>>
          [] rest = 1 /\ fb % 2 = 0 -> <<ga + 1, fb>>
          [] rest = 2 /\ fb % 2 = 0 -> <<ga + 2, fb>>
          [] rest = 3 /\ fb % 2 = 0 -> <<ga + 1, fb + 2>>
          [] rest = 0 /\ fb % 2 # 0 -> <<ga + 1, fb - 1>>
          [] rest = 1 /\ fb % 2 # 0 -> <<ga, fb + 1>>
          [] rest = 2 /\ fb % 2 # 0 -> <<ga + 1, fb + 1>>
          [] rest = 3 /\ fb % 2 # 0 -> <<ga + 2, fb + 1>>
          [] OTHER -> <<>>

Underflow == "attempt to subtract with overflow"

\* Top::calculate on the values the getters of Base return
TopCalculate(need_black_gap, kb_width_min, cde_pars, fgab_pars, base_cde_gap, base_fgab_gap) ==
    LET cde_width == SumSeq(cde_pars, 0, 4)
        fgab_width == SumSeq(fgab_pars, 0, 6)
        cde_gap == IF need_black_gap THEN base_cde_gap ELSE 0
        fgab_gap == IF need_black_gap THEN base_fgab_gap ELSE 0
        cde_black_key_width == CdeBlackKeyWidth(cde_width, kb_width_min, cde_gap)
        cde_key_width == (cde_width - 2 * cde_black_key_width - 4 * cde_gap) \div 3
        black_fs_as_width == cde_black_key_width
        black_gs_width == BlackGsWidth(fgab_width, cde_black_key_width)
        fgab_white_width == fgab_width - 2 * black_fs_as_width - black_gs_width - 6 * fgab_gap
        split == GaFbSplit(fgab_white_width)
        ga_white_width == split[1]
        fb_white_width == split[2]
        d_left == cde_key_width + 2 * cde_gap + cde_black_key_width - SumSeq(cde_pars, 0, 1)
        e_left == 2 * cde_key_width + 4 * cde_gap + 2 * cde_black_key_width
                    - SumSeq(cde_pars, 0, 3)
        g_left == fb_white_width \div 2 + 2 * fgab_gap + black_fs_as_width
                    - SumSeq(fgab_pars, 0, 1)
        a_left == fb_white_width \div 2 + 4 * fgab_gap + black_fs_as_width
                    + ga_white_width \div 2 + black_gs_width - SumSeq(fgab_pars, 0, 3)
        b_left == fb_white_width \div 2 + 6 * fgab_gap + 2 * black_fs_as_width
                    + ga_white_width + black_gs_width - SumSeq(fgab_pars, 0, 5)
    IN  IF cde_width - 2 * kb_width_min - 4 * cde_gap < 0 THEN TopPanic(Underflow)
        ELSE IF cde_width - 2 * cde_black_key_width - 4 * cde_gap < 0 THEN TopPanic(Underflow)
        ELSE IF fgab_white_width < 0 THEN TopPanic(Underflow)
        ELSE IF fgab_white_width % 2 # 0
        THEN TopPanic("assertion failed: fgab_white_width % 2 == 0")
        ELSE IF split = <<>> THEN TopPanic("Should not happen")
        ELSE IF d_left < 0 \/ e_left < 0 \/ g_left < 0 \/ a_left < 0 \/ b_left < 0
        THEN TopPanic(Underflow)
        ELSE [calculated |-> TRUE, panic |-> "",
              kb_width_min |-> kb_width_min, cde_pars |-> cde_pars, fgab_pars |-> fgab_pars,
              cde_gap |-> cde_gap, fgab_gap |-> fgab_gap,
              cde_width |-> cde_width, fgab_width |-> fgab_width,
              cde_key_width |-> cde_key_width, cde_black_key_width |-> cde_black_key_width,
              d_left_blind_width |-> d_left, e_left_blind_width |-> e_left,
              black_fs_as_width |-> black_fs_as_width, black_gs_width |-> black_gs_width,
              ga_white_width |-> ga_white_width, fb_white_width |-> fb_white_width,
              g_left_blind_width |-> g_left, a_left_blind_width |-> a_left,
              b_left_blind_width |-> b_left]

\* Top::is_perfect, top.rs 116-118
top_is_perfect(t) == t.black_fs_as_width = t.black_gs_width

\* Top::calculate(&self, &base) of build2d, lib.rs 251
TopOf(b, bs) ==
    TopCalculate(b.need_black_gap, get_black_key_min_width(bs), get_cde_pars(bs),
                 get_fgab_pars(bs), get_cde_gap(bs), get_fgab_gap(bs))

(***************************************************************************)
(* Top::get_top_for, top.rs 119-147                                        *)
(***************************************************************************)
WhiteGapBlack(w, g, blk) == [t |-> "WhiteGapBlack", w |-> w, g |-> g, blk |-> blk]

BlindWhiteGapBlack(blind, w, g, blk) ==
    [t |-> "BlindWhiteGapBlack", blind |-> blind, w |-> w, g |-> g, blk |-> blk]

BlindWhite(g, w) == [t |-> "BlindWhite", g |-> g, w |-> w]

\* the width of the class of key in cde_pars / fgab_pars, lines 124-133
ParOf(t, key) ==
    CASE key % 12 = KEY_C -> t.cde_pars[1]
      [] key % 12 = KEY_D -> t.cde_pars[3]
      [] key % 12 = KEY_E -> t.cde_pars[5]
      [] key % 12 = KEY_F -> t.fgab_pars[1]
      [] key % 12 = KEY_G -> t.fgab_pars[3]
      [] key % 12 = KEY_A -> t.fgab_pars[5]
      [] key % 12 = KEY_B -> t.fgab_pars[7]

\* get_top_for of a Key(width, key); the subtraction of corr may underflow
get_top_for(t, width, key) ==
    LET corr == width - ParOf(t, key)
    IN  IF corr < 0 THEN [t |-> "panic"]
        ELSE CASE key % 12 = KEY_C ->
                    WhiteGapBlack(t.cde_key_width + corr, t.cde_gap, t.cde_black_key_width)
               [] key % 12 = KEY_D ->
                    BlindWhiteGapBlack(t.d_left_blind_width, t.cde_key_width + corr,
                                       t.cde_gap, t.cde_black_key_width)
               [] key % 12 = KEY_E ->
                    BlindWhite(t.e_left_blind_width, t.cde_key_width + corr)
               [] key % 12 = KEY_F ->
                    WhiteGapBlack(t.fb_white_width \div 2 + corr, t.fgab_gap,
                                  t.black_fs_as_width)
               [] key % 12 = KEY_G ->
                    BlindWhiteGapBlack(t.g_left_blind_width, t.ga_white_width \div 2 + corr,
                                       t.cde_gap, t.black_gs_width)
               [] key % 12 = KEY_A ->
                    BlindWhiteGapBlack(t.a_left_blind_width, t.ga_white_width \div 2 + corr,
                                       t.cde_gap, t.black_fs_as_width)
               [] key % 12 = KEY_B ->
                    BlindWhite(t.b_left_blind_width, t.fb_white_width \div 2 + corr)

(***************************************************************************)
(* KeyboardBuilder::build2d, lib.rs 253-409: heights and the elements      *)
(***************************************************************************)
Rectangle(x, y, width, height) == [x |-> x, y |-> y, width |-> width, height |-> height]

\* Option<Rectangle>
None == <<>>

Some(r) == <<r>>

WhiteKey(wide, small, blind) ==
    [t |-> "WhiteKey", wide |-> wide, small |-> small, blind |-> blind]

BlackKey(r) == [t |-> "BlackKey", rect |-> r]

\* lines 268-269
key_gap(b) ==
    U16((b.width * key_gap_10um + keyboard_width_10um(NrOfWhiteKeys(b)) \div 2)
          \div keyboard_width_10um(NrOfWhiteKeys(b)))

\* line 270
black_gap(b) == IF b.need_black_gap THEN key_gap(b) ELSE 0

\* line 272, before the subtraction is checked
max_pure_white_key_width(b) == b.width - key_gap(b) * (NrOfWhiteKeys(b) + 1)

\* line 274
white_key_wide_width(b) == max_pure_white_key_width(b) \div NrOfWhiteKeys(b)

\* lines 276-280 with dot_ratio_1024 == 1024: the u64 value
\* (w * 8000 * 1024 + 1107) / 2215 / 1024 is (w * 8000 + 1) / 2215, as
\* 1107 < 1024 * 2 and both divisions round down
black_key_height(b) ==
    U16((white_key_wide_width(b) * black_key_height_10um
           + (white_key_wide_width_10um \div 2) \div 1024)
          \div white_key_wide_width_10um)

\* lines 281-284
white_key_wide_height(b) ==
    U16((white_key_wide_width(b) * white_key_wide_height_10um
           + white_key_wide_width_10um \div 2)
          \div white_key_wide_width_10um)

\* line 286
height(b) == 2 * key_gap(b) + black_gap(b) + black_key_height(b) + white_key_wide_height(b)

\* the values of lines 268-286 the loop over the elements uses
Heights(b) ==
    [key_gap |-> key_gap(b), black_gap |-> black_gap(b),
     black_key_height |-> black_key_height(b),
     white_key_wide_height |-> white_key_wide_height(b)]

RECURSIVE WhiteXKeysOnly(_, _, _)
WhiteXKeysOnly(units, from, to) ==
    IF from > to THEN 0
    ELSE IF from = to THEN (IF units[from].t = "Key" THEN units[from].width ELSE 0)
    ELSE WhiteXKeysOnly(units, from, (from + to) \div 2)
           + WhiteXKeysOnly(units, (from + to) \div 2 + 1, to)

\* white_x when the loop of line 292 reaches index i: the widths before it
RECURSIVE WhiteX(_, _, _)
WhiteX(units, from, to) ==
    IF from > to THEN 0
    ELSE IF from = to THEN units[from].width
    ELSE WhiteX(units, from, (from + to) \div 2)
           + WhiteX(units, (from + to) \div 2 + 1, to)

OptBlindOfEveryKey(hs, tr, i, n, white_x, width) ==
    LET y == hs.key_gap
        h == hs.black_gap + hs.black_key_height
    IN  CASE tr.t = "WhiteGapBlack" ->
               IF i = n - 1
               THEN Some(Rectangle(white_x + tr.w, y, width - tr.w, h))
               ELSE None
          [] tr.t = "BlindWhiteGapBlack" -> Some(Rectangle(white_x, y, tr.blind, h))
          [] tr.t = "BlindWhite" -> Some(Rectangle(white_x, y, tr.g, h))

\* lines 310-319, 327-343 and 357-366: the blind rectangle of the key at index i
OptBlind(hs, tr, i, n, white_x, width) ==
    LET y == hs.key_gap
        h == hs.black_gap + hs.black_key_height
    IN  CASE tr.t = "WhiteGapBlack" ->
               IF i = n - 1
               THEN Some(Rectangle(white_x + tr.w, y, width - tr.w, h))
               ELSE None
          [] tr.t = "BlindWhiteGapBlack" ->
               IF i = 1
               THEN Some(Rectangle(white_x, y, tr.blind, h))
               ELSE IF i = n - 1
               THEN Some(Rectangle(white_x + tr.w + tr.g, y, width - tr.w - tr.g, h))
               ELSE None
          [] tr.t = "BlindWhite" ->
               IF i = 1
               THEN Some(Rectangle(white_x, y, tr.g, h))
               ELSE None

\* lines 304-309, 344-349 and 367-372
SmallRect(hs, tr, white_x) ==
    LET y == hs.key_gap
        h == hs.black_gap + hs.black_key_height
    IN  CASE tr.t = "WhiteGapBlack" -> Rectangle(white_x, y, tr.w, h)
          [] tr.t = "BlindWhiteGapBlack" -> Rectangle(white_x + tr.blind, y, tr.w, h)
          [] tr.t = "BlindWhite" -> Rectangle(white_x + tr.g, y, tr.w, h)

BlackKeysOfEveryKey(hs, tr, i, n, white_x) ==
    CASE tr.t = "WhiteGapBlack" ->
           <<BlackKey(Rectangle(white_x + tr.w + tr.g, hs.key_gap, tr.blk,
                                hs.black_key_height))>>
      [] tr.t = "BlindWhiteGapBlack" ->
           <<BlackKey(Rectangle(white_x + tr.blind + tr.w + tr.g, hs.key_gap, tr.blk,
                                hs.black_key_height))>>
      [] tr.t = "BlindWhite" -> <<>>

\* lines 380-402: the black key pushed after the white key at index i
BlackKeysOf(hs, tr, i, n, white_x) ==
    IF i < n - 1
    THEN CASE tr.t = "WhiteGapBlack" ->
                <<BlackKey(Rectangle(white_x + tr.w + tr.g, hs.key_gap, tr.blk,
                                     hs.black_key_height))>>
           [] tr.t = "BlindWhiteGapBlack" ->
                <<BlackKey(Rectangle(white_x + tr.blind + tr.w + tr.g, hs.key_gap, tr.blk,
                                     hs.black_key_height))>>
           [] tr.t = "BlindWhite" -> <<>>
    ELSE <<>>

ElementsOfWhiteOnly(hs, t, units, i) ==
    LET el == units[i + 1]
        n == Len(units) - 1
        white_x == WhiteX(units, 1, i)
        tr == get_top_for(t, el.width, el.key)
        wide_rect == Rectangle(white_x, hs.black_gap + hs.black_key_height + hs.key_gap,
                               el.width, hs.white_key_wide_height)
    IN  IF el.t = "Gap" THEN <<>>
        ELSE <<WhiteKey(wide_rect, SmallRect(hs, tr, white_x),
                        OptBlind(hs, tr, i, n, white_x, el.width))>>

\* the elements one pass of the loop of lines 292-409 pushes, i the index
ElementsOf(hs, t, units, i) ==
    LET el == units[i + 1]
        n == Len(units) - 1
        white_x == WhiteX(units, 1, i)
        tr == get_top_for(t, el.width, el.key)
        wide_rect == Rectangle(white_x, hs.black_gap + hs.black_key_height + hs.key_gap,
                               el.width, hs.white_key_wide_height)
    IN  IF el.t = "Gap" THEN <<>>
        ELSE <<WhiteKey(wide_rect, SmallRect(hs, tr, white_x),
                        OptBlind(hs, tr, i, n, white_x, el.width))>>
               \o BlackKeysOf(hs, tr, i, n, white_x)

\* the pass at index i panics: corr or the width of a right blind underflows
PassPanics(t, units, i) ==
    LET el == units[i + 1]
        n == Len(units) - 1
        tr == get_top_for(t, el.width, el.key)
    IN  /\ el.t = "Key"
        /\ \/ tr.t = "panic"
           \/ tr.t = "WhiteGapBlack" /\ i = n - 1 /\ el.width - tr.w < 0
           \/ tr.t = "BlindWhiteGapBlack" /\ i # 1 /\ i = n - 1 /\ el.width - tr.w - tr.g < 0

\* the vector elements after the passes from..to, the range split in halves
RECURSIVE PushedElements(_, _, _, _, _)
PushedElements(hs, t, units, from, to) ==
    IF from > to THEN <<>>
    ELSE IF from = to THEN ElementsOf(hs, t, units, from)
    ELSE PushedElements(hs, t, units, from, (from + to) \div 2)
           \o PushedElements(hs, t, units, (from + to) \div 2 + 1, to)

\* the panic of lines 253-409 after Top::calculate, "" when there is none
LayoutPanic(b, t, units) ==
    IF max_pure_white_key_width(b) < 0 THEN Underflow
    ELSE IF ~Fits(height(b), "u16") THEN "attempt to add with overflow"
    ELSE IF \E i \in 0..(Len(units) - 1) : PassPanics(t, units, i) THEN Underflow
    ELSE ""

\* the Keyboard2d of lines 413-420
Keyboard2d(b, bs, t, units) ==
    [built |-> TRUE,
     left_white_key |-> b.left_white_key,
     right_white_key |-> b.right_white_key,
     width |-> b.width,
     height |-> height(b),
     perfect |-> base_is_perfect(bs) /\ top_is_perfect(t),
     elements |-> LET hs == Heights(b)
                  IN  PushedElements(hs, t, units, 0, Len(units) - 1)]

\* the rectangles white_keys pushes for the white keys from..to, lines 90-104,
\* the range split in halves
RECURSIVE WhiteKeyRects(_, _, _, _)
WhiteKeyRects(whites, blind_as_white, from, to) ==
    IF from > to THEN <<>>
    ELSE IF from = to
    THEN <<whites[from].wide, whites[from].small>>
           \o (IF blind_as_white THEN whites[from].blind ELSE None)
    ELSE WhiteKeyRects(whites, blind_as_white, from, (from + to) \div 2)
           \o WhiteKeyRects(whites, blind_as_white, (from + to) \div 2 + 1, to)

\* Keyboard2d::white_keys, lib.rs 86-106
white_keys(k, blind_as_white) ==
    LET whites == SelectSeq(k.elements, LAMBDA e : e.t = "WhiteKey")
    IN  WhiteKeyRects(whites, blind_as_white, 1, Len(whites))

\* Keyboard2d::black_keys, lib.rs 108-119
black_keys(k) ==
    LET blacks == SelectSeq(k.elements, LAMBDA e : e.t = "BlackKey")
    IN  [i \in 1..Len(blacks) |-> blacks[i].rect]

(***************************************************************************)
(* The state machine                                                       *)
(***************************************************************************)
Init ==
    /\ pc = "builder"
    /\ kb = NewBuilder
    /\ last = NoCall
    /\ base = DefaultBase
    /\ elements = <<>>
    /\ last_delta = 0
    /\ fired = <<>>
    /\ msg = ""
    /\ overflow = FALSE
    /\ top = DefaultTop
    /\ keyboard = NoKeyboard

SolverUnchanged == UNCHANGED <<base, elements, last_delta, fired, overflow, top, keyboard>>

\* a builder call returned Err: the builder it consumed is gone
ReturnErr(call) ==
    /\ pc' = "err"
    /\ kb' = NoBuilder
    /\ last' = call
    /\ msg' = ""
    /\ SolverUnchanged

ReturnOk(call, b) ==
    /\ pc' = "builder"
    /\ kb' = b
    /\ last' = call
    /\ msg' = ""
    /\ SolverUnchanged

\* KeyboardBuilder::standard_piano, lib.rs 172-193
StandardPiano(nr_of_keys) ==
    /\ pc = "builder"
    /\ LET lr == StandardPianoTable(nr_of_keys)
       IN  IF lr = <<>>
           THEN ReturnErr(Call("standard_piano", nr_of_keys, 0, FALSE))
           ELSE IF lr[2] - lr[1] + 1 # nr_of_keys
           THEN /\ pc' = "panic"
                /\ msg' = "assertion failed: right - left + 1 == nr_of_keys"
                /\ last' = Call("standard_piano", nr_of_keys, 0, FALSE)
                /\ UNCHANGED kb
                /\ SolverUnchanged
           ELSE ReturnOk(Call("standard_piano", nr_of_keys, 0, TRUE),
                         [kb EXCEPT !.left_white_key = lr[1], !.right_white_key = lr[2]])

\* KeyboardBuilder::is_rd64, lib.rs 194-199
IsRd64 ==
    /\ pc = "builder"
    /\ ReturnOk(Call("is_rd64", 0, 0, TRUE),
                [kb EXCEPT !.left_white_key = 21 + 12, !.right_white_key = 108 - 12])

\* KeyboardBuilder::set_most_left_right_white_keys, lib.rs 203-225
SetMostLeftRightWhiteKeys(left_white_key, right_white_key) ==
    /\ pc = "builder"
    /\ IF SetKeysOk(left_white_key, right_white_key)
       THEN ReturnOk(Call("set_most_left_right_white_keys", left_white_key, right_white_key, TRUE),
                     [kb EXCEPT !.left_white_key = left_white_key,
                                !.right_white_key = right_white_key])
       ELSE ReturnErr(Call("set_most_left_right_white_keys", left_white_key, right_white_key, FALSE))

\* KeyboardBuilder::set_width, lib.rs 227-234
SetWidth(w) ==
    /\ pc = "builder"
    /\ IF SetWidthOk(w)
       THEN ReturnOk(Call("set_width", w, 0, TRUE), [kb EXCEPT !.width = w])
       ELSE ReturnErr(Call("set_width", w, 0, FALSE))

\* KeyboardBuilder::white_black_gap_present, lib.rs 235-238
WhiteBlackGapPresent(gap_present) ==
    /\ pc = "builder"
    /\ ReturnOk(Call("white_black_gap_present", IF gap_present THEN 1 ELSE 0, 0, TRUE),
                [kb EXCEPT !.need_black_gap = gap_present])

\* build2d up to the call of find_solution: Base::calculate, base.rs 84-182
Build2d ==
    /\ pc = "builder"
    /\ last' = Call("build2d", 0, 0, TRUE)
    /\ overflow' = CalculateOverflows(kb)
    /\ base' = SeededBase(kb)
    /\ elements' = InitialElements(kb)
    /\ last_delta' = 0
    /\ IF min_width(kb) <= kb.width /\ max_width(kb) >= kb.width
       THEN pc' = "solving" /\ msg' = ""
       ELSE pc' = "panic" /\ msg' = "assertion failed: min_width / max_width"
    /\ UNCHANGED <<kb, fired, top, keyboard>>

\* one pass of the loop of find_solution that does not return
FindSolutionStep ==
    /\ pc = "solving"
    /\ LET r == Iteration(base, elements, last_delta)
       IN  /\ r.kind # "return"
           /\ base' = r.base
           /\ elements' = r.elements
           /\ IF r.kind = "panic"
              THEN /\ pc' = "panic"
                   /\ msg' = r.tier
                   /\ fired' = IF r.base.end_keys_enlarged /\ ~base.end_keys_enlarged
                               THEN Append(fired, "end_keys") ELSE fired
                   /\ UNCHANGED last_delta
              ELSE /\ pc' = "solving"
                   /\ msg' = ""
                   /\ last_delta' = base.width - CurrentW(base, elements)
                   /\ fired' = IF r.tier = "none" THEN fired ELSE Append(fired, r.tier)
    /\ overflow' = (overflow \/ SumOverflows(base, elements))
    /\ UNCHANGED <<kb, last, top, keyboard>>

\* the pass that finds delta == 0: find_solution and Base::calculate return
FindSolutionReturn ==
    /\ pc = "solving"
    /\ Iteration(base, elements, last_delta).kind = "return"
    /\ pc' = "solved"
    /\ overflow' = (overflow \/ SumOverflows(base, elements))
    /\ UNCHANGED <<kb, last, base, elements, last_delta, fired, msg, top, keyboard>>

\* the rest of build2d: Top::calculate, lib.rs 251, the heights and the loop
\* over the elements, lib.rs 253-409, and the Keyboard2d, lib.rs 413-420
Build2dFinish ==
    /\ pc = "solved"
    /\ top' = TopOf(kb, base)
    /\ LET base_elements == get_elements(base, elements)
           panic == LayoutPanic(kb, top', base_elements)
       IN  IF ~top'.calculated
           THEN /\ pc' = "panic"
                /\ msg' = top'.panic
                /\ UNCHANGED keyboard
           ELSE IF panic # ""
           THEN /\ pc' = "panic"
                /\ msg' = panic
                /\ UNCHANGED keyboard
           ELSE /\ pc' = "done"
                /\ msg' = ""
                /\ keyboard' = Keyboard2d(kb, base, top', base_elements)
    /\ UNCHANGED <<kb, last, base, elements, last_delta, fired, overflow>>

Next ==
    \/ \E n \in SizeArgs : StandardPiano(n)
    \/ IsRd64
    \/ \E l \in KeyArgs, r \in KeyArgs : SetMostLeftRightWhiteKeys(l, r)
    \/ \E w \in WidthArgs : SetWidth(w)
    \/ \E g \in BOOLEAN : WhiteBlackGapPresent(g)
    \/ Build2d
    \/ FindSolutionStep
    \/ FindSolutionReturn
    \/ Build2dFinish

Spec == Init /\ [][Next]_vars

(***************************************************************************)
(* Top::calculate on its own, top.rs 38-115: the values the getters of     *)
(* Base return are drawn from bounded sets, `last' keeps them.             *)
(***************************************************************************)
TopInputs(kb_width_min, cde_pars, fgab_pars, cde_gap, fgab_gap) ==
    [op |-> "Top::calculate", kb_width_min |-> kb_width_min, cde_pars |-> cde_pars,
     fgab_pars |-> fgab_pars, cde_gap |-> cde_gap, fgab_gap |-> fgab_gap]

TopInit ==
    /\ pc = "top_inputs"
    /\ \E g \in BOOLEAN : kb = [NewBuilder EXCEPT !.need_black_gap = g]
    /\ \E kw \in 0..MaxTopKey, d \in 0..1, fgab \in 0..1, gap \in 0..MaxTopGap,
          base_gap \in 0..MaxTopGap, kb_width_min \in 0..MaxTopKey :
          last = TopInputs(kb_width_min,
                           <<kw, gap, kw + d, gap, kw>>,
                           <<kw + fgab, gap, kw + fgab, gap, kw + fgab, gap, kw + fgab>>,
                           base_gap, base_gap)
    /\ base = DefaultBase
    /\ elements = <<>>
    /\ last_delta = 0
    /\ fired = <<>>
    /\ msg = ""
    /\ overflow = FALSE
    /\ top = DefaultTop
    /\ keyboard = NoKeyboard

\* Top::calculate(kb, base), a failed subtraction or assertion panics
TopCalculateCall ==
    /\ pc = "top_inputs"
    /\ top' = TopCalculate(kb.need_black_gap, last.kb_width_min, last.cde_pars,
                            last.fgab_pars, last.cde_gap, last.fgab_gap)
    /\ pc' = IF top'.calculated THEN "top_done" ELSE "panic"
    /\ msg' = top'.panic
    /\ UNCHANGED <<kb, last, base, elements, last_delta, fired, overflow, keyboard>>

TopNext == TopCalculateCall

TopSpec == TopInit /\ [][TopNext]_vars

(***************************************************************************)
(* The split of the white budget of the FGAB group on its own,             *)
(* top.rs 82-103: fgab_white_width is drawn from a bounded set, `last'     *)
(* keeps it.                                                               *)
(***************************************************************************)
SplitInput(fgab_white_width) ==
    [op |-> "Top::calculate split", fgab_white_width |-> fgab_white_width]

SplitInit ==
    /\ pc = "split_input"
    /\ kb = NewBuilder
    /\ \E w \in 0..MaxFgabWhiteWidth : last = SplitInput(w)
    /\ base = DefaultBase
    /\ elements = <<>>
    /\ last_delta = 0
    /\ fired = <<>>
    /\ msg = ""
    /\ overflow = FALSE
    /\ top = DefaultTop
    /\ keyboard = NoKeyboard

\* lines 82-103: the assertion, the two floors and the match
SplitCall ==
    /\ pc = "split_input"
    /\ LET split == GaFbSplit(last.fgab_white_width)
       IN  IF last.fgab_white_width % 2 # 0
           THEN /\ top' = TopPanic("assertion failed: fgab_white_width % 2 == 0")
                /\ pc' = "panic"
           ELSE IF split = <<>>
           THEN /\ top' = TopPanic("Should not happen")
                /\ pc' = "panic"
           ELSE IF split[2] < 0
           THEN /\ top' = TopPanic(Underflow)
                /\ pc' = "panic"
           ELSE /\ top' = [calculated |-> FALSE, panic |-> "",
                           ga_white_width |-> split[1], fb_white_width |-> split[2]]
                /\ pc' = "split_done"
    /\ msg' = top'.panic
    /\ UNCHANGED <<kb, last, base, elements, last_delta, fired, overflow, keyboard>>

SplitNext == SplitCall

SplitSpec == SplitInit /\ [][SplitNext]_vars

TypeOK ==
    /\ pc \in {"builder", "err", "solving", "solved", "done", "panic", "top_inputs", "top_done",
              "split_input", "split_done"}
    /\ fired \in Seq({"gap_all", "key_all", "gap_rem", "key_rem", "fgab", "cde", "gap_bc",
                      "gap_ef", "d", "outter_gaps", "end_keys", "alternating_d"})

(***************************************************************************)
(* Properties                                                              *)
(***************************************************************************)
\* Base::calculate has returned
Solved == pc \in {"solved", "done"}

\* the sum of the widths of the units from..to of Base::result
RECURSIVE SumUnits(_, _, _)
SumUnits(units, from, to) ==
    IF from > to THEN 0
    ELSE IF from = to THEN units[from].width
    ELSE SumUnits(units, from, (from + to) \div 2)
           + SumUnits(units, (from + to) \div 2 + 1, to)

Units == ResultElements(base, elements)

WhiteClasses == {0, 2, 4, 5, 7, 9, 11}

\* delta of the first pass of find_solution
DeltaAfterSeeding ==
    base.width - (base.nr_of_white_keys * base.kw_width_min
                    + (base.nr_of_white_keys + 1) * base.key_gap_min)

\* C1: whenever Base::calculate returns, the widths of the Key and Gap units
\* of Base::result add up to exactly the requested width.
C1_UnitWidthsSumToWidth ==
    Solved => SumUnits(Units, 1, Len(Units)) = kb.width

\* a solution in which gap tiers and key tiers fired
C1_Witness ==
    /\ pc = "solved"
    /\ Len(fired) >= 4
    /\ base.bc_gaps_enlarged
    /\ base.fgab_keys_enlarged
    /\ kb.width > WideFrom

SolverPanics ==
    {"no solution. remaining delta",
     "calculated width should not be bigger than given width",
     "Should not happen: {:?}"}

\* C2: for every validated key range and width find_solution returns; it hits
\* none of its three panics.
C2_FindSolutionNeverPanics ==
    ~(pc = "panic" /\ msg \in SolverPanics)

\* C3: no integer expression of Base::calculate leaves its type: the u16 sums
\* stay within 65535 and the u32 products within u32.
C3_NoOverflowInCalculate ==
    pc \in {"solving", "solved", "done", "panic"} => ~overflow

\* Base::calculate ran for the widest keyboard at the largest accepted width
C3_Witness ==
    /\ pc = "solving"
    /\ kb.left_white_key = 0
    /\ kb.right_white_key = 127
    /\ kb.width = 65535 - 127
    /\ base.nr_of_white_keys = 75

\* C4: after any sequence of successful builder calls the builder holds
\* left <= right, two white boundary keys at least 11 apart and within 127,
\* and a width of at most 65535-127.
C4_BuilderInvariant ==
    pc = "builder" =>
        /\ kb.left_white_key <= kb.right_white_key
        /\ kb.left_white_key % 12 \in WhiteClasses
        /\ kb.right_white_key % 12 \in WhiteClasses
        /\ kb.right_white_key - kb.left_white_key >= 11
        /\ kb.left_white_key <= 127
        /\ kb.right_white_key <= 127
        /\ kb.width <= 65535 - 127

\* a builder that took a key range and a width from its caller
C4_Witness ==
    /\ pc = "builder"
    /\ last.op = "white_black_gap_present"
    /\ kb.left_white_key = 35
    /\ kb.right_white_key = 98
    /\ kb.width = 65535 - 127
    /\ ~kb.need_black_gap

KeysAcceptable(l, r) ==
    /\ l <= r
    /\ l <= 127
    /\ r <= 127
    /\ r - l >= 11
    /\ l % 12 \in WhiteClasses
    /\ r % 12 \in WhiteClasses

\* C5: set_most_left_right_white_keys(left, right) returns Ok, storing exactly
\* left and right, iff left <= right <= 127, right - left >= 11 and both keys
\* are white; otherwise it returns Err and there is no builder.
C5_SetKeysOkIffValid ==
    last.op = "set_most_left_right_white_keys" =>
        /\ last.ok <=> KeysAcceptable(last.a, last.b)
        /\ last.ok => /\ pc = "builder"
                      /\ kb.left_white_key = last.a
                      /\ kb.right_white_key = last.b
        /\ ~last.ok => pc = "err" /\ kb = NoBuilder

\* the call accepted a range of exactly one octave
C5_Witness ==
    /\ last.op = "set_most_left_right_white_keys"
    /\ last.ok
    /\ last.a = 24
    /\ last.b = 35
    /\ kb.left_white_key = 24

StandardSizes == {25, 37, 49, 61, 64, 73, 76, 88}

\* C6: standard_piano(n) returns Ok exactly for the eight standard sizes; the
\* stored pair spans n keys between two white keys, 64 gives 33..96 as is_rd64
\* does; any other n returns Err, and the assert_eq never fails.
C6_StandardPianoTable ==
    /\ last.op = "standard_piano" =>
         /\ last.ok <=> last.a \in StandardSizes
         /\ last.ok => /\ pc = "builder"
                       /\ kb.right_white_key - kb.left_white_key + 1 = last.a
                       /\ kb.left_white_key % 12 \in WhiteClasses
                       /\ kb.right_white_key % 12 \in WhiteClasses
                       /\ last.a = 64 => kb.left_white_key = 33 /\ kb.right_white_key = 96
         /\ ~last.ok => pc = "err" /\ kb = NoBuilder
    /\ last.op = "is_rd64" =>
         /\ pc = "builder"
         /\ kb.left_white_key = 33
         /\ kb.right_white_key = 96

\* standard_piano(64) was accepted
C6_Witness ==
    /\ last.op = "standard_piano"
    /\ last.a = 64
    /\ last.ok
    /\ kb.left_white_key = 33

\* no tier from "enlarge F,G,A,B" to "alternating D" fired
NoFlaggedTierFired ==
    /\ ~base.fgab_keys_enlarged
    /\ ~base.cde_keys_enlarged
    /\ ~base.bc_gaps_enlarged
    /\ ~base.ef_gaps_enlarged
    /\ ~base.d_key_enlarged
    /\ ~base.outter_gaps_enlarged
    /\ ~base.end_keys_enlarged
    /\ ~base.alternating_d_key_enlarged

\* C7: the perfect flag of Base::result is true iff none of the tiers FGAB keys,
\* CDE keys, B-C gaps, E-F gaps, D keys, outer gaps, outer keys, alternating D
\* fired.
C7_PerfectIffNoFlaggedTier ==
    Solved => (ResultPerfect(base) <=> NoFlaggedTierFired)

KeyUnitsInside == {i \in 3..(Len(Units) - 2) : Units[i].t = "Key"}

GapUnitsInside == {i \in 2..(Len(Units) - 1) : Units[i].t = "Gap"}

\* all keys but the outermost two have one width, all gaps but the outermost
\* two have one width
UniformInside ==
    /\ \A i, j \in KeyUnitsInside : Units[i].width = Units[j].width
    /\ \A i, j \in GapUnitsInside : Units[i].width = Units[j].width

\* C8: whenever the keyboard reports is_perfect(), all Key units have one width
\* and all Gap units have one width, the outermost gap or key excepted.
C8_PerfectMeansUniform ==
    (pc = "done" /\ keyboard.perfect) => UniformInside

C10_OnePixelOneTierNotPerfect ==
    (pc = "done" /\ DeltaAfterSeeding = 1) => (Len(fired) = 1 /\ ~keyboard.perfect)

(***************************************************************************)
(* The layout of build2d                                                   *)
(***************************************************************************)
IsWhiteKey(e) == e.t = "WhiteKey"

\* the wide rectangles of the built keyboard, left to right
WideRects ==
    LET whites == SelectSeq(keyboard.elements, IsWhiteKey)
    IN  [k \in 1..Len(whites) |-> whites[k].wide]

\* the units are Gap, Key, Gap, ..., Key, Gap; every Key unit has its wide
\* rectangle at the sum of the widths before it and of its own width, the Gap
\* units have none; neighbours are apart by the gap between them and the last
\* one ends the final gap before the keyboard width
WideRectsFollowUnits ==
    LET W == WideRects
        U == Units
        n == Len(W)
    IN  /\ Len(U) = 2 * n + 1
        /\ \A k \in 1..(n + 1) : U[2 * k - 1].t = "Gap"
        /\ \A k \in 1..n :
             /\ U[2 * k].t = "Key"
             /\ W[k].x = SumUnits(U, 1, 2 * k - 1)
             /\ W[k].width = U[2 * k].width
        /\ \A k \in 1..(n - 1) : W[k].x + W[k].width + U[2 * k + 1].width = W[k + 1].x
        /\ \A j \in 1..n : \A k \in (j + 1)..n : W[j].x + W[j].width <= W[k].x
        /\ W[n].x + W[n].width + U[2 * n + 1].width = kb.width

\* C11 as claimed: the wide rectangles follow the units and are strictly
\* increasing in x.
C11_WideRectsStrictlyIncreasing ==
    pc = "done" =>
        LET W == WideRects
        IN  /\ WideRectsFollowUnits
            /\ \A k \in 1..(Len(W) - 1) : W[k].x < W[k + 1].x

\* C11: for every Key unit build2d emits the wide rectangle at x = the sum of
\* the widths of all preceding units with the unit's width, Gap units emit
\* nothing; the wide rectangles are pairwise disjoint, consecutive ones are
\* exactly the gap between them apart, the last one plus the final gap ends at
\* the keyboard width, and x never decreases: it increases from one key to the
\* next exactly when that key or the gap after it is at least one pixel wide.
C11_WideRectsTileWidth ==
    pc = "done" =>
        LET W == WideRects
            U == Units
        IN  /\ WideRectsFollowUnits
            /\ \A k \in 1..(Len(W) - 1) :
                 /\ W[k].x <= W[k + 1].x
                 /\ W[k].x < W[k + 1].x <=> U[2 * k].width + U[2 * k + 1].width >= 1

\* a built keyboard with keys and gaps of at least one pixel and gaps of
\* different widths
C11_Witness ==
    /\ pc = "done"
    /\ LET W == WideRects
           U == Units
       IN  /\ Len(W) >= 7
           /\ \A i \in 1..Len(U) : U[i].width >= 1
           /\ \E k \in 1..Len(W) : U[2 * k + 1].width # U[3].width
           /\ W[2].x > W[1].x + W[1].width

\* the rectangles of an element
RectsOf(e) ==
    IF e.t = "WhiteKey"
    THEN {e.wide, e.small} \cup {e.blind[i] : i \in 1..Len(e.blind)}
    ELSE {e.rect}

\* the rectangles of an element in the upper band, next to the black keys
UpperRectsOf(e) ==
    IF e.t = "WhiteKey"
    THEN {e.small} \cup {e.blind[i] : i \in 1..Len(e.blind)}
    ELSE {e.rect}

Larger(a, b) == IF a >= b THEN a ELSE b

Smaller(a, b) == IF a <= b THEN a ELSE b

\* the x-intervals [x, x + width) of two rectangles share a pixel column
XOverlap(a, b) == Larger(a.x, b.x) < Smaller(a.x + a.width, b.x + b.width)

YOverlap(a, b) == Larger(a.y, b.y) < Smaller(a.y + a.height, b.y + b.height)

\* two rectangles share a pixel
Overlap(a, b) == XOverlap(a, b) /\ YOverlap(a, b)

\* C12: in every built keyboard no two rectangles of different keys overlap;
\* the small, blind and black key rectangles of the upper band have pairwise
\* disjoint x-intervals and every rectangle lies within [0, width).
C12_RectanglesDisjoint ==
    pc = "done" =>
        LET E == keyboard.elements
        IN  /\ \A i \in 1..Len(E) : \A r \in RectsOf(E[i]) :
                 r.x >= 0 /\ r.x + r.width <= keyboard.width
            /\ \A i \in 1..Len(E) : \A j \in (i + 1)..Len(E) :
                 /\ \A a \in RectsOf(E[i]) : \A b \in RectsOf(E[j]) : ~Overlap(a, b)
                 /\ \A a \in UpperRectsOf(E[i]) : \A b \in UpperRectsOf(E[j]) : ~XOverlap(a, b)
            /\ \A i \in 1..Len(E) :
                 \A a \in UpperRectsOf(E[i]) : \A b \in UpperRectsOf(E[i]) :
                    a # b => ~XOverlap(a, b)

\* the key of the last white key element up to position i of the element
\* list: the key of the Key unit it was built from
KeyOfWhite(i) ==
    elements[2 * Cardinality({j \in 1..i : keyboard.elements[j].t = "WhiteKey"})].key

C14_UnitsWithinOnePixel ==
    Solved =>
        \A i \in 1..Len(Units) :
            IF Units[i].t = "Key"
            THEN Units[i].width \in {base.identical_key, base.identical_key + 1}
            ELSE Units[i].width \in {base.identical_gap, base.identical_gap + 1}

\* the white key elements of the built keyboard, left to right
WhiteKeys == SelectSeq(keyboard.elements, IsWhiteKey)

\* C15: in every built keyboard only the first and the last white key can
\* carry a blind rectangle: every WhiteKey between them has blind == None, so
\* there are at most two blind rectangles.
C15_BlindOnlyAtTheEnds ==
    pc = "done" =>
        LET W == WhiteKeys
        IN  /\ \A k \in 2..(Len(W) - 1) : W[k].blind = None
            /\ Cardinality({k \in 1..Len(W) : W[k].blind # None}) <= 2

\* a built keyboard with a blind rectangle at both ends and white keys with a
\* blind offset in between
C15_Witness ==
    /\ pc = "done"
    /\ LET W == WhiteKeys
       IN  /\ Len(W) >= 15
           /\ W[1].blind # None
           /\ W[Len(W)].blind # None
           /\ \E k \in 2..(Len(W) - 1) : W[k].small.x > W[k].wide.x

\* Base::calculate has seeded the widths: build2d was called
Seeded == last.op = "build2d"

\* C16: after the seeding of Base::calculate, the optional increment of
\* kw_width_min included, delta = width - (N * kw_width_min + (N + 1) *
\* key_gap_min) is in 0..N, so neither assertion on min_width and max_width
\* fails.
C16_DeltaAfterSeedingWithinN ==
    Seeded =>
        /\ 0 <= DeltaAfterSeeding
        /\ DeltaAfterSeeding <= base.nr_of_white_keys
        /\ min_width(kb) <= kb.width
        /\ max_width(kb) >= kb.width
        /\ msg # "assertion failed: min_width / max_width"

\* seeded with kw_width_min incremented and the largest remainder, N
C16_Witness ==
    /\ Seeded
    /\ pc = "solving"
    /\ base.kw_width_min = KwWidthMinFloor(kb) + 1
    /\ DeltaAfterSeeding = base.nr_of_white_keys

\* delta of the pass of find_solution that comes next
Delta == base.width - CurrentW(base, elements)

FlaggedTierNames ==
    {"fgab", "cde", "gap_bc", "gap_ef", "d", "outter_gaps", "end_keys", "alternating_d"}

UniformTierNames == {"gap_all", "key_all", "gap_rem", "key_rem"}

\* no flagged tier has fired twice
FlaggedTiersAtMostOnce ==
    \A i \in 1..Len(fired) : \A j \in (i + 1)..Len(fired) :
        fired[i] \in FlaggedTierNames => fired[i] # fired[j]

\* a pass that goes on to another pass has made delta smaller, or has left it
\* as it was and the next pass is the one that fails
DeltaDecreasesOrLoopFails ==
    (pc = "solving" /\ pc' = "solving") =>
        \/ Delta' < Delta
        \/ /\ Delta' = Delta
           /\ Iteration(base', elements', last_delta').kind = "panic"

\* C17: find_solution terminates: from pass to pass delta gets strictly
\* smaller until it is 0 or the loop fails, every flagged tier fires at most
\* once, and the tiers that fired are at most the eight flagged tiers and the
\* uniform bumps.
C17_FindSolutionTerminates ==
    /\ [](FlaggedTiersAtMostOnce
            /\ Len(fired) <= 8 + Cardinality({i \in 1..Len(fired) : fired[i] \in UniformTierNames})
            /\ Cardinality({i \in 1..Len(fired) : fired[i] \in UniformTierNames}) <= 1)
    /\ [][DeltaDecreasesOrLoopFails]_vars

\* a solve that needed six tiers
C17_Witness ==
    /\ pc = "solved"
    /\ Len(fired) >= 6

SubsetTierNames == {"fgab", "cde", "gap_bc", "gap_ef", "d"}

\* the count the guard of a subset tier tests
GuardCount(bs, tier) ==
    CASE tier = "fgab" -> bs.nr_of_f + bs.nr_of_g + bs.nr_of_a + bs.nr_of_b
      [] tier = "cde" -> bs.nr_of_c + bs.nr_of_d + bs.nr_of_e
      [] tier = "gap_bc" -> bs.nr_of_bc_gaps
      [] tier = "gap_ef" -> bs.nr_of_ef_gaps
      [] tier = "d" -> bs.nr_of_d

\* the positions of the subset of a tier: the keys of its classes, or the
\* gaps between a B and a C key or an E and an F key
SubsetOf(els, tier) ==
    CASE tier = "fgab" ->
           {i \in 1..Len(els) : IsKeyElement(els[i])
                                  /\ KeyClass(els[i]) \in {KEY_F, KEY_G, KEY_A, KEY_B}}
      [] tier = "cde" ->
           {i \in 1..Len(els) : IsKeyElement(els[i])
                                  /\ KeyClass(els[i]) \in {KEY_C, KEY_D, KEY_E}}
      [] tier = "d" ->
           {i \in 1..Len(els) : IsKeyElement(els[i]) /\ KeyClass(els[i]) = KEY_D}
      [] tier = "gap_bc" ->
           {i \in 2..(Len(els) - 1) : /\ ~IsKeyElement(els[i])
                                      /\ KeyClass(els[i - 1]) = KEY_B
                                      /\ KeyClass(els[i + 1]) = KEY_C}
      [] tier = "gap_ef" ->
           {i \in 2..(Len(els) - 1) : /\ ~IsKeyElement(els[i])
                                      /\ KeyClass(els[i - 1]) = KEY_E
                                      /\ KeyClass(els[i + 1]) = KEY_F}

\* the pass has fired a subset tier
SubsetTierFires ==
    /\ pc = "solving"
    /\ Len(fired') = Len(fired) + 1
    /\ fired'[Len(fired')] \in SubsetTierNames

\* C18: whenever a subset tier fires (FGAB keys, CDE keys, B-C gaps, E-F gaps,
\* D keys) it adds exactly one pixel to every member of its subset and to
\* nothing else, and delta decreases by exactly the count its guard tested.
C18_SubsetTierConsumesItsCount ==
    [][SubsetTierFires =>
         LET tier == fired'[Len(fired')]
         IN  /\ Delta - Delta' = GuardCount(base, tier)
             /\ \A i \in 1..Len(elements) :
                  ElementWidth(base', elements'[i])
                    = ElementWidth(base, elements[i])
                        + (IF i \in SubsetOf(elements, tier) THEN 1 ELSE 0)]_vars

\* the pass has fired the alternating-D tier
AlternatingDFires ==
    /\ pc = "solving"
    /\ fired' = Append(fired, "alternating_d")

\* the D keys the pass has enlarged
NewKeyD == {i \in 1..Len(elements) : elements'[i].t = "KeyD" /\ elements[i].t # "KeyD"}

\* C19: when the alternating-D tier fires with delta == floor(nr_of_d / 2) it
\* enlarges exactly delta D keys and delta is 0 in the next pass; when it
\* fires with a larger delta it enlarges at most delta D keys.
C19_AlternatingDConsumesDelta ==
    [][AlternatingDFires =>
         /\ Delta = base.nr_of_d \div 2 =>
              (Cardinality(NewKeyD) = Delta /\ Delta' = 0)
         /\ Delta > base.nr_of_d \div 2 => Cardinality(NewKeyD) <= Delta]_vars

\* the inputs of the CDE part as Top::calculate reads them, top.rs 41-49
TopCdeWidth == SumSeq(last.cde_pars, 0, 4)

TopCdeGap == IF kb.need_black_gap THEN last.cde_gap ELSE 0

TopCdeRemainder == (TopCdeWidth - 2 * last.kb_width_min - 4 * TopCdeGap) % 3

TopCdeWideEnough ==
    /\ pc \in {"top_done", "panic"}
    /\ last.op = "Top::calculate"
    /\ TopCdeWidth >= 2 * (last.kb_width_min + 2) + 4 * TopCdeGap

\* C20: whenever cde_width >= 2*(kb_width_min+2) + 4*cde_gap, the black key
\* width Top::calculate chooses is kb_width_min + 0, + 2 or + 1 for the
\* remainder 0, 1 or 2, the subtraction of line 65 does not underflow and
\* its division by 3 is exact:
\* 3*cde_key_width + 2*cde_black_key_width + 4*cde_gap == cde_width
C20_CdeDivisionExact ==
    TopCdeWideEnough =>
        LET black == CdeBlackKeyWidth(TopCdeWidth, last.kb_width_min, TopCdeGap)
            white == TopCdeWidth - 2 * black - 4 * TopCdeGap
        IN  /\ black = last.kb_width_min
                          + (CASE TopCdeRemainder = 0 -> 0
                               [] TopCdeRemainder = 1 -> 2
                               [] TopCdeRemainder = 2 -> 1)
            /\ white >= 0
            /\ 3 * (white \div 3) + 2 * black + 4 * TopCdeGap = TopCdeWidth
            /\ top.calculated =>
                  /\ top.cde_black_key_width = black
                  /\ top.cde_width = TopCdeWidth
                  /\ top.cde_gap = TopCdeGap
                  /\ 3 * top.cde_key_width + 2 * top.cde_black_key_width + 4 * top.cde_gap
                        = top.cde_width

\* a calculated Top with gaps between white and black keys whose remainder
\* is 1, so that the black keys are two pixels wider than the minimum
C20_Witness ==
    /\ TopCdeWideEnough
    /\ top.calculated
    /\ top.cde_gap > 0
    /\ TopCdeRemainder = 1
    /\ top.cde_black_key_width = top.kb_width_min + 2
    /\ top.cde_key_width > 0

\* Top::calculate has been applied to the values kept in `last'
TopCalculateReturned ==
    /\ pc \in {"top_done", "panic"}
    /\ last.op = "Top::calculate"

\* the white budget of the FGAB group, top.rs 80, of a calculated Top
TopFgabWhiteWidth ==
    top.fgab_width - 2 * top.black_fs_as_width - top.black_gs_width - 6 * top.fgab_gap

\* C21: whatever the parities of fgab_width and cde_black_key_width are, the
\* white budget fgab_width - 2*black_fs_as_width - black_gs_width - 6*fgab_gap
\* is even, so the assertion of top.rs 82 never fails; and Top::is_perfect()
\* is true exactly when black_gs_width equals black_fs_as_width, which is
\* exactly when fgab_width and cde_black_key_width have the same parity.
C21_FgabWhiteEvenPerfectIffSameParity ==
    TopCalculateReturned =>
        /\ msg # "assertion failed: fgab_white_width % 2 == 0"
        /\ top.calculated =>
              /\ TopFgabWhiteWidth % 2 = 0
              /\ top.black_fs_as_width = top.cde_black_key_width
              /\ top_is_perfect(top) <=> (top.black_gs_width = top.black_fs_as_width)
              /\ top_is_perfect(top) <=> (top.fgab_width % 2 = top.cde_black_key_width % 2)

\* a calculated Top of an odd fgab_width with even outer black keys: the
\* middle black key is one pixel wider and the Top is not perfect
C21_Witness ==
    /\ TopCalculateReturned
    /\ top.calculated
    /\ top.fgab_width % 2 = 1
    /\ top.cde_black_key_width % 2 = 0
    /\ top.black_gs_width = top.cde_black_key_width + 1
    /\ ~top_is_perfect(top)
    /\ TopFgabWhiteWidth > 0

\* the split has been applied to an even white budget
SplitOfEvenReturned ==
    /\ pc \in {"split_done", "panic"}
    /\ last.op = "Top::calculate split"
    /\ last.fgab_white_width % 2 = 0

\* C22: for every even fgab_white_width the match of top.rs 90-100 does not
\* reach its "Should not happen" arm, fb_white_width - 1 does not underflow,
\* ga_white_width + fb_white_width == fgab_white_width, both are even (the
\* halves ga/2 and fb/2 are exact) and fb_white_width <= ga_white_width.
C22_SplitExactEvenOrdered ==
    SplitOfEvenReturned =>
        /\ pc = "split_done"
        /\ msg = ""
        /\ top.fb_white_width >= 0
        /\ top.ga_white_width + top.fb_white_width = last.fgab_white_width
        /\ top.ga_white_width % 2 = 0
        /\ top.fb_white_width % 2 = 0
        /\ 2 * (top.ga_white_width \div 2) + 2 * (top.fb_white_width \div 2)
              = last.fgab_white_width
        /\ top.fb_white_width <= top.ga_white_width

\* a budget whose two floors leave one pixel and an odd fb_white_width: the
\* pixel goes to fb_white_width
C22_Witness ==
    /\ SplitOfEvenReturned
    /\ pc = "split_done"
    /\ last.fgab_white_width > 1000
    /\ FbFloor(last.fgab_white_width) % 2 = 1
    /\ top.fb_white_width = FbFloor(last.fgab_white_width) + 1
    /\ top.ga_white_width = GaFloor(last.fgab_white_width)

\* the white and the black MIDI keys of the built range
WhiteMidiKeys == {k \in kb.left_white_key..kb.right_white_key : is_white(k)}

BlackMidiKeys == {k \in kb.left_white_key..kb.right_white_key : ~is_white(k)}

C24_RemainderTiersNeverFire ==
    /\ \A i \in 1..Len(fired) : fired[i] \notin {"gap_all", "gap_rem", "key_rem"}
    /\ msg # "attempt to calculate the remainder with a divisor of zero"
    /\ pc = "solving" => Delta <= base.nr_of_white_keys

\* a range without a C, D, E group (nr_of_cde == 0) whose solve went through
\* the tiers of find_solution
C24_Witness ==
    /\ pc = "solved"
    /\ base.nr_of_cde = 0
    /\ Len(fired) >= 1

====
